---- MODULE Spec2Model ----
(***************************************************************************)
(* Model of the custom dependency-injection container (class DIContainer)  *)
(* and of the programs that wire the MVC greeting application.              *)
(*                                                                         *)
(* The container is a std::map from typeid(T).name() to a nullary creator  *)
(* lambda.  registerType / registerTypeWithDependencies install a creator, *)
(* resolve looks the creator up and invokes it; a creator installed by     *)
(* registerTypeWithDependencies calls resolve for each of its template     *)
(* arguments before it constructs T.                                       *)
(***************************************************************************)
EXTENDS Integers, Sequences, FiniteSets, TLC

\* ------------------------------------------------------------------------
\* Bounds
\* ------------------------------------------------------------------------

\* Number of user types the generic container is instantiated with.
NumTypes == 3

\* Longest template argument pack of registerTypeWithDependencies.
MaxDeps == 2

\* Number of different lines the user may type at the prompt.
MaxNames == 4

NameList == <<"", "Ada", "Grace", "Linus", "Barbara", "Edsger", "Margaret">>

\* The lines std::getline may read.
Names == {NameList[i] : i \in 1..MaxNames}

TypeNames == <<"A", "B", "C", "D", "E", "F">>

\* User types of the generic harness.
Types == {TypeNames[i] : i \in 1..NumTypes}

\* Every template argument pack Args... of length 0..MaxDeps.
ArgPacks == UNION {[1..n -> Types] : n \in 0..MaxDeps}

\* Deepest chain of nested resolve calls over pairwise distinct types.  A
\* deeper chain resolves a type that is already being resolved, and the
\* creators are deterministic, so the recursion never returns: the process
\* runs out of stack.
StackLimit == NumTypes

\* ------------------------------------------------------------------------
\* State
\* ------------------------------------------------------------------------

VARIABLES
    creators_,  \* DIContainer::creators_ : key -> creator
    order,      \* the build's evaluation order of the arguments of a call
    result,     \* what the last container call did and handed to its caller
    lastReg,    \* history: per type, the most recent registration request
    deferred,   \* history: types registered while a dependency had no creator
    replaced,   \* history: types whose creator replaced a different one
    program,    \* which executable runs
    pc,         \* main: index of the next statement, 0 outside main
    runpc,      \* Controller::run: index of the next statement, 0 outside
    locals,     \* main's local variables
    name,       \* Controller::run's local: the line read from std::cin
    cout,       \* what was written to std::cout
    name_       \* Model::name_ of the Model objects it was assigned in

mainVars == <<program, pc, runpc, locals, name, cout, name_>>

histVars == <<deferred, replaced>>

vars == <<creators_, order, result, lastReg, deferred, replaced, program, pc,
          runpc, locals, name, cout, name_>>

\* typeid(T).name(): the mangled name of T (Itanium ABI: the length of the
\* class name in decimal, then the name).
typeid_name(T) ==
    CASE T = "Logger" -> "6Logger"
      [] T = "Configuration" -> "13Configuration"
      [] T = "Model" -> "5Model"
      [] T = "View" -> "4View"
      [] T = "Controller" -> "10Controller"
      [] OTHER -> "1" \o T

\* An empty std::shared_ptr.
nullptr == [type |-> "void", id |-> 0, args |-> <<>>]

\* Variant of make_shared: the creator hands back an empty pointer.
make_shared_empty(T, args, id) == nullptr

\* The object std::make_shared<T>(args...) allocates; id is its address.
make_shared(T, args, id) == [type |-> T, id |-> id, args |-> args]

\* Variant of alloc: one cached slot is handed out again and again.
alloc_cached(live) == 1

\* Where the allocator places a new object: an address no live object has.
alloc(live) == CHOOSE a \in 1..(Cardinality(live) + 1) :
                  a \notin live /\ \A b \in 1..(a - 1) : b \in live

\* Addresses of an object and of everything it holds pointers to.
RECURSIVE Addrs(_)
Addrs(obj) ==
    IF obj = nullptr THEN {}
    ELSE {obj.id} \cup UNION {Addrs(obj.args[i]) : i \in 1..Len(obj.args)}

\* The two lambdas the registration templates store.
Creator(kind, T, Args) == [kind |-> kind, T |-> T, Args |-> Args]

Event(what, T, id) == [what |-> what, T |-> T, id |-> id]

\* Variant of EvalOrder: every build evaluates from left to right.
EvalOrder_leftToRight(n) == [i \in 1..n |-> i]

\* The order in which the n arguments of make_shared<T>(resolve<Args>()...)
\* are evaluated: unspecified by the language, fixed by the build.
EvalOrder(n) == [i \in 1..n |-> IF order = "ltr" THEN i ELSE n + 1 - i]

\* Outcome of a (nested) call: how it ended, what it returned, the live
\* addresses afterwards and the calls, constructions and throws it made.
Outcome(status, obj, live, events) ==
    [status |-> status, obj |-> obj, live |-> live, events |-> events]

RECURSIVE resolveCall(_, _, _)
RECURSIVE resolveArgs(_, _, _, _, _)

\* Variant of resolveArgs: a failed argument does not stop the evaluation of
\* the remaining ones.
resolveArgs_continue(Args, todo, done, depth, live) ==
    IF todo = <<>>
    THEN Outcome("returned", done, live, <<>>)
    ELSE LET i == Head(todo)
             r == resolveCall(Args[i], depth, live)
             rest == resolveArgs(Args, Tail(todo), [done EXCEPT ![i] = r.obj],
                                 depth, r.live)
         IN Outcome(IF r.status # "returned" THEN r.status ELSE rest.status,
                    rest.obj, rest.live, r.events \o rest.events)

\* Variant of resolveArgs: the pointers are passed on in the order in which
\* they were obtained instead of the order of the parameters.
resolveArgs_asEvaluated(Args, todo, done, depth, live) ==
    IF todo = <<>>
    THEN Outcome("returned", done, live, <<>>)
    ELSE LET i == Head(todo)
             r == resolveCall(Args[i], depth, live)
         IN IF r.status # "returned"
            THEN Outcome(r.status, done, r.live, r.events)
            ELSE LET rest == resolveArgs(Args, Tail(todo),
                                [done EXCEPT ![Len(Args) + 1 - Len(todo)] = r.obj],
                                depth, r.live)
                 IN Outcome(rest.status, rest.obj, rest.live,
                            r.events \o rest.events)

\* resolve<Args>()... evaluated in the order todo; done maps the positions
\* already evaluated to the pointers returned.
resolveArgs(Args, todo, done, depth, live) ==
    IF todo = <<>>
    THEN Outcome("returned", done, live, <<>>)
    ELSE LET i == Head(todo)
             r == resolveCall(Args[i], depth, live)
         IN IF r.status # "returned"
            THEN Outcome(r.status, done, r.live, r.events)
            ELSE LET rest == resolveArgs(Args, Tail(todo),
                                         [done EXCEPT ![i] = r.obj],
                                         depth, r.live)
                 IN Outcome(rest.status, rest.obj, rest.live,
                            r.events \o rest.events)

\* Variant of invoke: a dependency that failed to resolve is replaced by an
\* empty pointer and T is constructed all the same.
invoke_fallback(c, depth, live) ==
    IF c.kind = "registerType"
    THEN Outcome("returned", make_shared(c.T, <<>>, alloc(live)),
                 live \cup {alloc(live)},
                 <<Event("make", c.T, alloc(live))>>)
    ELSE LET n == Len(c.Args)
             a == resolveArgs(c.Args, EvalOrder(n), [i \in 1..n |-> nullptr],
                              depth + 1, live)
         IN Outcome("returned", make_shared(c.T, a.obj, alloc(a.live)),
                    a.live \cup {alloc(a.live)},
                    a.events \o <<Event("make", c.T, alloc(a.live))>>)

\* Variant of invoke: the registerType lambda asks the container for a T
\* instead of constructing one.
invoke_reentrant(c, depth, live) ==
    IF c.kind = "registerType"
    THEN resolveCall(c.T, depth + 1, live)
    ELSE LET n == Len(c.Args)
             a == resolveArgs(c.Args, EvalOrder(n), [i \in 1..n |-> nullptr],
                              depth + 1, live)
         IN IF a.status # "returned"
            THEN Outcome(a.status, nullptr, a.live, a.events)
            ELSE Outcome("returned", make_shared(c.T, a.obj, alloc(a.live)),
                         a.live \cup {alloc(a.live)},
                         a.events \o <<Event("make", c.T, alloc(a.live))>>)

\* it->second(): the body of the stored lambda.
invoke(c, depth, live) ==
    IF c.kind = "registerType"
    THEN Outcome("returned", make_shared(c.T, <<>>, alloc(live)),
                 live \cup {alloc(live)},
                 <<Event("make", c.T, alloc(live))>>)
    ELSE LET n == Len(c.Args)
             a == resolveArgs(c.Args, EvalOrder(n), [i \in 1..n |-> nullptr],
                              depth + 1, live)
         IN IF a.status # "returned"
            THEN Outcome(a.status, nullptr, a.live, a.events)
            ELSE Outcome("returned", make_shared(c.T, a.obj, alloc(a.live)),
                         a.live \cup {alloc(a.live)},
                         a.events \o <<Event("make", c.T, alloc(a.live))>>)

\* Variant of resolveCall: a missing key yields an empty pointer, no throw.
resolveCall_silent(T, depth, live) ==
    IF depth > StackLimit
    THEN Outcome("stack_overflow", nullptr, live, <<Event("resolve", T, 0)>>)
    ELSE IF typeid_name(T) \in DOMAIN creators_
    THEN LET r == invoke(creators_[typeid_name(T)], depth, live)
         IN Outcome(r.status, r.obj, r.live,
                    <<Event("resolve", T, 0)>> \o r.events)
    ELSE Outcome("returned", nullptr, live, <<Event("resolve", T, 0)>>)

\* Variant of resolveCall: re-entering the resolution of a type is detected
\* and reported as an error instead of recursing.
resolveCall_guarded(T, depth, live) ==
    IF depth > StackLimit
    THEN Outcome("runtime_error", nullptr, live,
                 <<Event("resolve", T, 0), Event("throw", T, 0)>>)
    ELSE IF typeid_name(T) \in DOMAIN creators_
    THEN LET r == invoke(creators_[typeid_name(T)], depth, live)
         IN Outcome(r.status, r.obj, r.live,
                    <<Event("resolve", T, 0)>> \o r.events)
    ELSE Outcome("runtime_error", nullptr, live,
                 <<Event("resolve", T, 0), Event("throw", T, 0)>>)

\* DIContainer::resolve<T>() entered at nesting depth `depth`.
resolveCall(T, depth, live) ==
    IF depth > StackLimit
    THEN Outcome("stack_overflow", nullptr, live, <<Event("resolve", T, 0)>>)
    ELSE IF typeid_name(T) \in DOMAIN creators_
    THEN LET r == invoke(creators_[typeid_name(T)], depth, live)
         IN Outcome(r.status, r.obj, r.live,
                    <<Event("resolve", T, 0)>> \o r.events)
    ELSE Outcome("runtime_error", nullptr, live,
                 <<Event("resolve", T, 0), Event("throw", T, 0)>>)

\* Variant of mapAssign: std::map::insert, which keeps an existing entry.
mapAssign_insert(m, key, c) ==
    [k \in DOMAIN m \cup {key} |-> IF k \in DOMAIN m THEN m[k] ELSE c]

\* Variant of mapAssign: the assignment drops the other entries.
mapAssign_only(m, key, c) == [k \in {key} |-> c]

\* creators_[key] = creator
mapAssign(m, key, c) ==
    [k \in DOMAIN m \cup {key} |-> IF k = key THEN c ELSE m[k]]

Result(op, T, Args, status, obj, events) ==
    [op |-> op, T |-> T, Args |-> Args, status |-> status, obj |-> obj,
     events |-> events]

\* History bookkeeping: the latest registration request of T.
Remember(h, T, c) == [k \in DOMAIN h \cup {T} |-> IF k = T THEN c ELSE h[k]]

\* Variant of installed: the dependencies are looked up when T is registered.
installed_eager(op, T, Args) ==
    IF \E i \in 1..Len(Args) : typeid_name(Args[i]) \notin DOMAIN creators_
    THEN Result(op, T, Args, "runtime_error", nullptr,
                <<Event("resolve", T, 0), Event("throw", T, 0)>>)
    ELSE Result(op, T, Args, "ok", nullptr, <<>>)

\* What a registration call does besides the map assignment: it returns
\* void and calls nothing.
installed(op, T, Args) == Result(op, T, Args, "ok", nullptr, <<>>)

\* The process has not died of stack exhaustion.
Alive == result.status # "stack_overflow"

\* Addresses of the objects the caller of the container still holds.
Live ==
    Addrs(result.obj) \cup UNION {Addrs(locals[v]) : v \in DOMAIN locals}

\* ------------------------------------------------------------------------
\* Operations of DIContainer
\* ------------------------------------------------------------------------

registerType(T) ==
    /\ Alive
    /\ creators_' = mapAssign(creators_, typeid_name(T),
                              Creator("registerType", T, <<>>))
    /\ result' = installed("registerType", T, <<>>)
    /\ lastReg' = Remember(lastReg, T, Creator("registerType", T, <<>>))
    /\ UNCHANGED order

registerTypeWithDependencies(T, Args) ==
    /\ Alive
    /\ creators_' = mapAssign(creators_, typeid_name(T),
                              Creator("registerTypeWithDependencies", T, Args))
    /\ result' = installed("registerTypeWithDependencies", T, Args)
    /\ lastReg' = Remember(lastReg, T,
                            Creator("registerTypeWithDependencies", T, Args))
    /\ UNCHANGED order

\* Variant of resolve: the creator is looked up with creators_[key], which
\* inserts an empty std::function for a key that is missing.
resolve_subscript(T) ==
    /\ Alive
    /\ LET r == resolveCall(T, 1, Live)
       IN result' = Result("resolve", T, <<>>, r.status, r.obj, r.events)
    /\ creators_' = IF typeid_name(T) \in DOMAIN creators_
                    THEN creators_
                    ELSE mapAssign(creators_, typeid_name(T),
                                   Creator("empty", T, <<>>))
    /\ UNCHANGED <<order, lastReg>>

resolve(T) ==
    /\ Alive
    /\ LET r == resolveCall(T, 1, Live)
       IN result' = Result("resolve", T, <<>>, r.status, r.obj, r.events)
    /\ UNCHANGED <<creators_, order, lastReg>>

\* ------------------------------------------------------------------------
\* The container driven by arbitrary calls
\* ------------------------------------------------------------------------

EmptyMap == [k \in {} |-> nullptr]

Init ==
    /\ creators_ = EmptyMap
    /\ order \in {"ltr", "rtl"}
    /\ result = Result("DIContainer", "void", <<>>, "ok", nullptr, <<>>)
    /\ program = "calls"
    /\ pc = 0
    /\ runpc = 0
    /\ locals = EmptyMap
    /\ name = ""
    /\ cout = <<>>
    /\ name_ = EmptyMap
    /\ lastReg = EmptyMap
    /\ deferred = {}
    /\ replaced = {}

\* The caller keeps only the pointer of its latest call.
Next ==
    \/ \E T \in Types :
          registerType(T) /\ UNCHANGED <<histVars, mainVars>>
    \/ \E T \in Types : \E Args \in ArgPacks :
          /\ registerTypeWithDependencies(T, Args)
          /\ UNCHANGED <<histVars, mainVars>>
    \/ \E T \in Types : resolve(T) /\ UNCHANGED <<histVars, mainVars>>

Spec == Init /\ [][Next]_vars

\* ------------------------------------------------------------------------
\* The same calls, recording which registrations preceded their dependencies
\* ------------------------------------------------------------------------

\* T is registered with creator c: was a dependency of c missing just then?
TrackDeferred(T, c) ==
    deferred' =
        IF \E i \in 1..Len(c.Args) :
              typeid_name(c.Args[i]) \notin DOMAIN creators_
        THEN deferred \cup {T}
        ELSE deferred \ {T}

NextLazy ==
    \/ \E T \in Types :
          /\ registerType(T)
          /\ TrackDeferred(T, Creator("registerType", T, <<>>))
          /\ UNCHANGED <<replaced, mainVars>>
    \/ \E T \in Types : \E Args \in ArgPacks :
          /\ registerTypeWithDependencies(T, Args)
          /\ TrackDeferred(T, Creator("registerTypeWithDependencies", T, Args))
          /\ UNCHANGED <<replaced, mainVars>>
    \/ \E T \in Types :
          resolve(T) /\ UNCHANGED <<histVars, mainVars>>

SpecLazy == Init /\ [][NextLazy]_vars

\* ------------------------------------------------------------------------
\* The same calls, recording which registrations replaced an earlier one
\* ------------------------------------------------------------------------

\* T is registered with creator c: does c replace a registerType creator by
\* one that has dependencies?
TrackReplaced(T, c) ==
    replaced' =
        IF /\ typeid_name(T) \in DOMAIN creators_
           /\ creators_[typeid_name(T)].kind = "registerType"
           /\ c.Args # <<>>
        THEN replaced \cup {T}
        ELSE replaced \ {T}

NextOver ==
    \/ \E T \in Types :
          /\ registerType(T)
          /\ TrackReplaced(T, Creator("registerType", T, <<>>))
          /\ UNCHANGED <<deferred, mainVars>>
    \/ \E T \in Types : \E Args \in ArgPacks :
          /\ registerTypeWithDependencies(T, Args)
          /\ TrackReplaced(T, Creator("registerTypeWithDependencies", T, Args))
          /\ UNCHANGED <<deferred, mainVars>>
    \/ \E T \in Types :
          resolve(T) /\ UNCHANGED <<histVars, mainVars>>

SpecOver == Init /\ [][NextOver]_vars

\* ------------------------------------------------------------------------
\* The MVC classes
\* ------------------------------------------------------------------------

\* Configuration() : app_name("HelloApp")
app_name(config) == "HelloApp"

\* Variant of model_: the Controller keeps a copy of the Model it is given.
model_copy(controller) ==
    [controller.args[1] EXCEPT !.id = @ + 100]

\* Controller(model, view, logger) : model_(model), view_(view),
\* logger_(logger)
model_(controller) == controller.args[1]

view_(controller) == controller.args[2]

logger_(controller) == controller.args[3]

\* Model::getName of the Model object m; name_ is empty until set.
getName(m) == IF m.id \in DOMAIN name_ THEN name_[m.id] ELSE ""

\* Variant of setName: the name is not stored.
setName_discard(m, n) == name_

\* Model::setName: the name_ fields after m->setName(n).
setName(m, n) ==
    [a \in DOMAIN name_ \cup {m.id} |-> IF a = m.id THEN n ELSE name_[a]]

\* Logger::log: the text written for message.
log(message) == "[LOG]: " \o message \o "\n"

\* View::displayGreeting: the text written for n.
displayGreeting(n) == "Hello " \o n \o "!" \o "\n"

\* View::askForName: the prompt written before the line is read.
askForName == "Enter your name: "

\* ------------------------------------------------------------------------
\* The two main functions
\* ------------------------------------------------------------------------

Stmt(stmt, T, Args, var, text) ==
    [stmt |-> stmt, T |-> T, Args |-> Args, var |-> var, text |-> text]

\* main of the custom-container program.
CustomMain == <<
    Stmt("registerType", "Logger", <<>>, "", ""),
    Stmt("registerType", "Model", <<>>, "", ""),
    Stmt("registerType", "View", <<>>, "", ""),
    Stmt("registerType", "Configuration", <<>>, "", ""),
    Stmt("registerTypeWithDependencies", "Controller",
         <<"Model", "View", "Logger">>, "", ""),
    Stmt("resolve", "Configuration", <<>>, "config", ""),
    Stmt("resolve", "Logger", <<>>, "logger", ""),
    Stmt("resolve", "Model", <<>>, "model", ""),
    Stmt("resolve", "View", <<>>, "view", ""),
    Stmt("resolve", "Controller", <<>>, "controller", ""),
    Stmt("log", "", <<>>, "", " - Custom DI Framework"),
    Stmt("run", "", <<>>, "", ""),
    Stmt("return", "", <<>>, "", "") >>

\* main of the manual-wiring program.
ManualMain == <<
    Stmt("construct", "Configuration", <<>>, "config", ""),
    Stmt("construct", "Logger", <<>>, "logger", ""),
    Stmt("construct", "Model", <<>>, "model", ""),
    Stmt("construct", "View", <<>>, "view", ""),
    Stmt("construct", "Controller", <<"model", "view", "logger">>,
         "controller", ""),
    Stmt("log", "", <<>>, "", " - Manual DI"),
    Stmt("run", "", <<>>, "", ""),
    Stmt("return", "", <<>>, "", "") >>

Main == IF program = "custom" THEN CustomMain ELSE ManualMain

\* main is about to execute a statement of kind stmt.
At(stmt) == pc \in 1..Len(Main) /\ runpc = 0 /\ Main[pc].stmt = stmt

\* auto var = obj;
declare(l, var, obj) ==
    [v \in DOMAIN l \cup {var} |-> IF v = var THEN obj ELSE l[v]]

mainRegisterType ==
    /\ At("registerType")
    /\ registerType(Main[pc].T)
    /\ pc' = pc + 1
    /\ UNCHANGED <<histVars, program, runpc, locals, name, cout, name_>>

mainRegisterTypeWithDependencies ==
    /\ At("registerTypeWithDependencies")
    /\ registerTypeWithDependencies(Main[pc].T, Main[pc].Args)
    /\ pc' = pc + 1
    /\ UNCHANGED <<histVars, program, runpc, locals, name, cout, name_>>

\* auto var = container.resolve<T>(); an exception nobody catches ends the
\* process.
mainResolve ==
    /\ At("resolve")
    /\ resolve(Main[pc].T)
    /\ IF result'.status = "returned"
       THEN /\ locals' = declare(locals, Main[pc].var, result'.obj)
            /\ pc' = pc + 1
       ELSE /\ locals' = locals
            /\ pc' = 0
    /\ UNCHANGED <<histVars, program, runpc, name, cout, name_>>

\* Configuration config;  auto var = std::make_shared<T>();
\* Controller controller(model, view, logger);
mainConstruct ==
    /\ At("construct")
    /\ LET st == Main[pc]
           args == [i \in 1..Len(st.Args) |-> locals[st.Args[i]]]
       IN locals' = declare(locals, st.var,
                            make_shared(st.T, args, alloc(Live)))
    /\ pc' = pc + 1
    /\ UNCHANGED <<creators_, order, result, lastReg, histVars, program,
                   runpc, name, cout, name_>>

\* logger->log("App Name: " + config->app_name + " - ...");
mainLog ==
    /\ At("log")
    /\ cout' = Append(cout, log("App Name: " \o app_name(locals["config"])
                                \o Main[pc].text))
    /\ pc' = pc + 1
    /\ UNCHANGED <<creators_, order, result, lastReg, histVars, program,
                   runpc, locals, name, name_>>

\* controller->run(): the call.
mainRun ==
    /\ At("run")
    /\ runpc' = 1
    /\ UNCHANGED <<creators_, order, result, lastReg, histVars, program, pc,
                   locals, name, cout, name_>>

mainReturn ==
    /\ At("return")
    /\ pc' = 0
    /\ UNCHANGED <<creators_, order, result, lastReg, histVars, program,
                   runpc, locals, name, cout, name_>>

\* ------------------------------------------------------------------------
\* Controller::run, statement by statement
\* ------------------------------------------------------------------------

\* logger_->log("Starting application...");
runLogStarting ==
    /\ runpc = 1
    /\ cout' = Append(cout, log("Starting application..."))
    /\ runpc' = 2
    /\ UNCHANGED <<creators_, order, result, lastReg, histVars, program, pc,
                   locals, name, name_>>

\* std::string name = view_->askForName();
runAskForName ==
    /\ runpc = 2
    /\ cout' = Append(cout, askForName)
    /\ \E line \in Names : name' = line
    /\ runpc' = 3
    /\ UNCHANGED <<creators_, order, result, lastReg, histVars, program, pc,
                   locals, name_>>

\* model_->setName(name);
runSetName ==
    /\ runpc = 3
    /\ name_' = setName(model_(locals["controller"]), name)
    /\ runpc' = 4
    /\ UNCHANGED <<creators_, order, result, lastReg, histVars, program, pc,
                   locals, name, cout>>

\* view_->displayGreeting(model_->getName());
runDisplayGreeting ==
    /\ runpc = 4
    /\ cout' = Append(cout,
                      displayGreeting(getName(model_(locals["controller"]))))
    /\ runpc' = 5
    /\ UNCHANGED <<creators_, order, result, lastReg, histVars, program, pc,
                   locals, name, name_>>

\* logger_->log("Application finished."); and the return to main.
runLogFinished ==
    /\ runpc = 5
    /\ cout' = Append(cout, log("Application finished."))
    /\ runpc' = 0
    /\ pc' = pc + 1
    /\ UNCHANGED <<creators_, order, result, lastReg, histVars, program,
                   locals, name, name_>>

InitMain ==
    /\ creators_ = EmptyMap
    /\ order \in {"ltr", "rtl"}
    /\ result = Result("DIContainer", "void", <<>>, "ok", nullptr, <<>>)
    /\ lastReg = EmptyMap
    /\ deferred = {}
    /\ replaced = {}
    /\ program \in {"custom", "manual"}
    /\ pc = 1
    /\ runpc = 0
    /\ locals = EmptyMap
    /\ name = ""
    /\ cout = <<>>
    /\ name_ = EmptyMap

NextMain ==
    \/ mainRegisterType
    \/ mainRegisterTypeWithDependencies
    \/ mainResolve
    \/ mainConstruct
    \/ mainLog
    \/ mainRun
    \/ mainReturn
    \/ runLogStarting
    \/ runAskForName
    \/ runSetName
    \/ runDisplayGreeting
    \/ runLogFinished

SpecMain == InitMain /\ [][NextMain]_vars

\* ------------------------------------------------------------------------
\* The dependency graph the registry describes
\* ------------------------------------------------------------------------

Registered(T) == typeid_name(T) \in DOMAIN creators_

CreatorOf(T) == creators_[typeid_name(T)]

\* The types T's creator resolves; none when T has no creator.
DepsOf(T) ==
    IF Registered(T)
    THEN {CreatorOf(T).Args[i] : i \in 1..Len(CreatorOf(T).Args)}
    ELSE {}

RECURSIVE Closure(_)
Closure(S) ==
    LET S2 == S \cup UNION {DepsOf(U) : U \in S}
    IN IF S2 = S THEN S ELSE Closure(S2)

\* T and its transitive dependencies.
Reach(T) == Closure({T})

\* U depends on itself, directly or through other registered types.
OnCycle(U) == U \in Closure(DepsOf(U))

\* A dependency cycle is reachable from T.
Cyclic(T) == \E U \in Reach(T) : OnCycle(U)

\* T and every transitive dependency of T has a creator.
AllRegistered(T) == \A U \in Reach(T) : Registered(U)

\* The last call was resolve<T>().
Resolved(T) == result.op = "resolve" /\ result.T = T

EventsOf(what) ==
    {i \in 1..Len(result.events) : result.events[i].what = what}

\* ------------------------------------------------------------------------
\* Claims
\* ------------------------------------------------------------------------

\* C1: resolve<T>() for a type whose key has no creator fails with the
\* "type not registered" error and hands no instance to the caller, in
\* every registry state, the empty one included.
C1_UnregisteredFails ==
    \A T \in Types :
        (Resolved(T) /\ ~Registered(T)) =>
            /\ result.status = "runtime_error"
            /\ result.obj = nullptr
            /\ result.events = <<Event("resolve", T, 0), Event("throw", T, 0)>>

\* C1 witness: after some registrations a type that was never registered is
\* resolved.
C1_Witness ==
    /\ result.op = "resolve"
    /\ ~Registered(result.T)
    /\ DOMAIN creators_ # {}
    /\ result.status = "runtime_error"

\* C3: a type whose creator was installed by registerType resolves to a
\* non-null instance of that type whatever else the registry holds.
C3_SimpleResolves ==
    \A T \in Types :
        (Resolved(T) /\ Registered(T) /\ CreatorOf(T).kind = "registerType") =>
            /\ result.status = "returned"
            /\ result.obj # nullptr
            /\ result.obj.type = T
            /\ result.obj.id > 0

\* C3 witness: a registerType'd type was resolved while another type has no
\* creator and a third one depends on itself.
C3_Witness ==
    /\ result.op = "resolve"
    /\ Registered(result.T)
    /\ CreatorOf(result.T).kind = "registerType"
    /\ result.status = "returned"
    /\ \E U \in Types : ~Registered(U)
    /\ \E U \in Types : OnCycle(U)

\* C8: a failed resolve<T>() hands nothing to its caller; the one throw is
\* the last thing that happened (nothing is retried or constructed after
\* it), it is the throw of the unregistered type just looked up, and T's
\* constructor was never called.
C8_ErrorPropagates ==
    result.status = "runtime_error" =>
        LET n == Len(result.events)
        IN /\ result.op = "resolve"
           /\ result.obj = nullptr
           /\ EventsOf("throw") = {n}
           /\ n >= 2
           /\ result.events[n - 1] = Event("resolve", result.events[n].T, 0)
           /\ ~Registered(result.events[n].T)
           /\ \A i \in EventsOf("make") : result.events[i].T # result.T
           /\ \A i \in EventsOf("resolve") \ {n - 1} :
                 Registered(result.events[i].T)

\* C8 witness: the failure came from a nested resolution after another
\* dependency had already been constructed.
C8_Witness ==
    /\ result.status = "runtime_error"
    /\ EventsOf("make") # {}
    /\ result.events[Len(result.events)].T # result.T

\* T's creator was installed by registerTypeWithDependencies.
WithDeps(T) ==
    Registered(T) /\ CreatorOf(T).kind = "registerTypeWithDependencies"

\* Every dependency of T, direct or transitive, has a creator.
DepsRegistered(T) == \A U \in Closure(DepsOf(T)) : Registered(U)

\* C2 as stated: with a creator installed by registerTypeWithDependencies,
\* resolve<T>() succeeds exactly when every transitive dependency is
\* registered, and otherwise fails with the "type not registered" error.
C2_Original ==
    \A T \in Types :
        (Resolved(T) /\ WithDeps(T)) =>
            /\ result.status = "returned" <=> DepsRegistered(T)
            /\ result.status # "returned" => result.status = "runtime_error"

\* C2 amended: the same, for a T from which no dependency cycle is reachable.
C2_AcyclicResolvesIffDepsRegistered ==
    \A T \in Types :
        (Resolved(T) /\ WithDeps(T) /\ ~Cyclic(T)) =>
            /\ result.status = "returned" <=> DepsRegistered(T)
            /\ result.status # "returned" => result.status = "runtime_error"
            /\ result.status = "returned" => result.obj.type = T

\* C2 witness: every direct dependency of T is registered, a dependency of a
\* dependency is not, and resolve<T>() failed in the nested resolution.
C2_Witness ==
    /\ result.op = "resolve"
    /\ WithDeps(result.T)
    /\ ~Cyclic(result.T)
    /\ DepsOf(result.T) # {}
    /\ \A U \in DepsOf(result.T) : Registered(U)
    /\ ~DepsRegistered(result.T)
    /\ result.status = "runtime_error"

\* C9 as stated: every resolve<T>() call returns an instance or raises the
\* "type not registered" error.
C9_Original ==
    result.op = "resolve" => result.status \in {"returned", "runtime_error"}

\* C9 amended: registrations always complete, and resolve<T>() returns an
\* instance or raises the error whenever no dependency cycle is reachable
\* from T; it then makes at most one nested call per path of distinct types.
C9_AcyclicCompletes ==
    /\ result.op \in {"registerType", "registerTypeWithDependencies"} =>
          result.status = "ok"
    /\ \A T \in Types :
          (Resolved(T) /\ ~Cyclic(T)) =>
              /\ result.status \in {"returned", "runtime_error"}
              /\ \A i \in EventsOf("resolve") :
                    result.events[i].T \in Reach(T)

\* C9 witness: a resolve whose acyclic expansion covers every type completed.
C9_Witness ==
    /\ result.op = "resolve"
    /\ ~Cyclic(result.T)
    /\ Cardinality(Reach(result.T)) = NumTypes
    /\ result.status = "returned"

\* C10 as stated: a reachable cycle of registered types makes resolve<T>()
\* recurse without bound (no instance, no error); an acyclic graph makes it
\* terminate.
C10_Original ==
    \A T \in Types :
        Resolved(T) =>
            /\ Cyclic(T) => result.status = "stack_overflow"
            /\ ~Cyclic(T) => result.status # "stack_overflow"

\* C10 amended: with a reachable cycle resolve<T>() never returns an
\* instance; it recurses without bound if in addition every type reachable
\* from T is registered (otherwise the nested resolution of an unregistered
\* dependency may raise the error before the cycle is entered); without a
\* reachable cycle it never recurses without bound.
C10_CycleNeverReturns ==
    \A T \in Types :
        Resolved(T) =>
            /\ Cyclic(T) => result.status # "returned"
            /\ (Cyclic(T) /\ AllRegistered(T)) =>
                  result.status = "stack_overflow"
            /\ ~Cyclic(T) => result.status # "stack_overflow"

\* C10 witness: the cycle goes through two types, neither of which is the
\* type resolved, and the process ran out of stack.
C10_Witness ==
    /\ result.op = "resolve"
    /\ result.status = "stack_overflow"
    /\ ~OnCycle(result.T)
    /\ \A U \in Types : result.T \notin DepsOf(U)
    /\ \E U \in Reach(result.T) : OnCycle(U) /\ U \notin DepsOf(U)

\* Number of objects in the graph obj is the root of.
RECURSIVE Nodes(_)
RECURSIVE NodesOfArgs(_, _)
NodesOfArgs(args, i) ==
    IF i > Len(args) THEN 0 ELSE Nodes(args[i]) + NodesOfArgs(args, i + 1)

Nodes(obj) == IF obj = nullptr THEN 0 ELSE 1 + NodesOfArgs(obj.args, 1)

\* Number of occurrences of types in the expansion of T that the registry
\* describes (defined when no cycle is reachable from T).
RECURSIVE Expansion(_)
RECURSIVE ExpansionOfArgs(_, _)
ExpansionOfArgs(Args, i) ==
    IF i > Len(Args) THEN 0
    ELSE Expansion(Args[i]) + ExpansionOfArgs(Args, i + 1)

Expansion(T) ==
    IF Registered(T) THEN 1 + ExpansionOfArgs(CreatorOf(T).Args, 1) ELSE 0

\* obj is what the creators now in the registry build for T.
RECURSIVE Conforms(_, _)
Conforms(obj, T) ==
    /\ obj # nullptr
    /\ obj.type = T
    /\ Registered(T)
    /\ Len(obj.args) = Len(CreatorOf(T).Args)
    /\ \A i \in 1..Len(obj.args) : Conforms(obj.args[i], CreatorOf(T).Args[i])

RegistrationOps == {"registerType", "registerTypeWithDependencies"}

\* The registry holds exactly the latest registration of every type, and a
\* resolve<T>() runs that registration and no earlier one.
C4_Latest ==
    /\ DOMAIN creators_ = {typeid_name(T) : T \in DOMAIN lastReg}
    /\ \A T \in DOMAIN lastReg : creators_[typeid_name(T)] = lastReg[T]
    /\ \A T \in DOMAIN lastReg :
          Resolved(T) =>
              LET c == lastReg[T]
                  n == Len(c.Args)
              IN /\ result.status = "returned" =>
                       /\ result.obj.type = T
                       /\ Len(result.obj.args) = n
                       /\ \A i \in 1..n : result.obj.args[i].type = c.Args[i]
                 /\ (\E i \in 1..n : ~Registered(c.Args[i])) =>
                       result.status # "returned"
                 /\ n = 0 =>
                       /\ result.status = "returned"
                       /\ result.events = <<Event("resolve", T, 0),
                                            Event("make", T, result.obj.id)>>
                 /\ n > 0 =>
                       /\ Len(result.events) >= 2
                       /\ result.events[2] =
                             Event("resolve", c.Args[EvalOrder(n)[1]], 0)

\* A registration raises nothing and touches no key but its own.
C4_Frame ==
    result'.op \in RegistrationOps =>
        /\ result'.status = "ok"
        /\ DOMAIN creators_' = DOMAIN creators_ \cup {typeid_name(result'.T)}
        /\ \A k \in DOMAIN creators_ \ {typeid_name(result'.T)} :
              creators_'[k] = creators_[k]

\* C4: at most one creator per key and the last registration wins; a
\* re-registration raises nothing and leaves every other key's creator as
\* it was.
C4_LastWins == []C4_Latest /\ [][C4_Frame]_vars

\* C4 witness: T was registered with registerType, then again with
\* dependencies of which one is unregistered, and resolve<T>() failed.
C4_Witness ==
    /\ result.op = "resolve"
    /\ result.T \in replaced
    /\ \E U \in DepsOf(result.T) : ~Registered(U)
    /\ result.status = "runtime_error"

\* Within one resolve every occurrence of a type in the expansion is
\* resolved by its own call, constructed by its own make_shared, and is an
\* object of its own.
C5_OncePerOccurrence ==
    (result.op = "resolve" /\ result.status = "returned") =>
        /\ Nodes(result.obj) = Expansion(result.T)
        /\ Cardinality(Addrs(result.obj)) = Nodes(result.obj)
        /\ Cardinality(EventsOf("make")) = Nodes(result.obj)
        /\ Cardinality(EventsOf("resolve")) = Nodes(result.obj)
        /\ \A i \in EventsOf("make") : result.events[i].id \in Addrs(result.obj)

\* A resolve that follows a successful resolve, whose pointer the caller
\* still holds, returns no object of the earlier graph.
C5_Fresh ==
    (/\ result.op = "resolve" /\ result.status = "returned"
     /\ result'.op = "resolve" /\ result'.status = "returned") =>
        Addrs(result.obj) \cap Addrs(result'.obj) = {}

\* C5: resolution is transient: every resolve, top-level or nested, runs the
\* creator anew, two successive successful calls share no instance, and a
\* type that occurs several times in one expansion is instantiated once per
\* occurrence.
C5_Transient == []C5_OncePerOccurrence /\ [][C5_Fresh]_vars

\* C5 witness: an expansion over all the types in which one type occurs
\* twice was built.
C5_Witness ==
    /\ result.op = "resolve"
    /\ result.status = "returned"
    /\ Cardinality(Reach(result.T)) = NumTypes
    /\ \E i, j \in EventsOf("make") :
          i # j /\ result.events[i].T = result.events[j].T

\* C6: registerTypeWithDependencies succeeds and resolves nothing, whether
\* or not its dependencies are registered; resolve<T>() builds what the
\* registry describes when resolve is called, so a T registered before its
\* dependencies resolves once they are registered.
C6_Deferred ==
    /\ result.op \in RegistrationOps =>
          /\ result.status = "ok"
          /\ result.obj = nullptr
          /\ result.events = <<>>
    /\ \A T \in Types :
          (Resolved(T) /\ result.status = "returned") =>
              Conforms(result.obj, T)
    /\ \A T \in deferred :
          (Resolved(T) /\ DepsRegistered(T) /\ ~Cyclic(T)) =>
              result.status = "returned"
    /\ \A T \in deferred : WithDeps(T)

\* C6 witness: T was registered while a dependency had no creator, the
\* dependency was registered afterwards, and resolve<T>() succeeded.
C6_Witness ==
    /\ result.op = "resolve"
    /\ result.T \in deferred
    /\ result.status = "returned"

\* C7: in the custom-container main no resolve fails, and the Controller it
\* resolves holds a Model, a View and a Logger, in that constructor
\* position, each non-null and each the object the registry's creator for
\* that type constructed during resolve<Controller>().
C7_DemonstratedWiring ==
    program = "custom" =>
        /\ result.status \in {"ok", "returned"}
        /\ pc # 0 \/ DOMAIN locals =
              {"config", "logger", "model", "view", "controller"}
        /\ \A v \in DOMAIN locals : locals[v] # nullptr
        /\ "controller" \in DOMAIN locals =>
              LET c == locals["controller"]
              IN /\ c.type = "Controller"
                 /\ Len(c.args) = 3
                 /\ model_(c) # nullptr /\ model_(c).type = "Model"
                 /\ view_(c) # nullptr /\ view_(c).type = "View"
                 /\ logger_(c) # nullptr /\ logger_(c).type = "Logger"
                 /\ Resolved("Controller") =>
                       /\ c = result.obj
                       /\ \A i \in 1..3 :
                             \E e \in EventsOf("make") :
                                result.events[e] =
                                    Event("make", c.args[i].type, c.args[i].id)
                       /\ Cardinality(EventsOf("make")) = 4

\* C7 witness: the custom-container main, built with right-to-left argument
\* evaluation, has resolved its Controller.
C7_Witness ==
    /\ program = "custom"
    /\ order = "rtl"
    /\ "controller" \in DOMAIN locals
    /\ Resolved("Controller")
    /\ result.status = "returned"

\* Position in result.events of the construction of obj.
MadeAt(obj) ==
    CHOOSE e \in EventsOf("make") :
        result.events[e] = Event("make", obj.type, obj.id)

\* Positions of the pack Args whose type has no creator.
Missing(Args) == {i \in 1..Len(Args) : ~Registered(Args[i])}

\* Every registered type of the pack constructs without dependencies.
PlainOrMissing(Args) ==
    \A i \in 1..Len(Args) :
        Registered(Args[i]) => CreatorOf(Args[i]).kind = "registerType"

Before(i, j) == IF order = "ltr" THEN i < j ELSE i > j

C12_Frame ==
    /\ result'.op = "resolve" => creators_' = creators_
    /\ creators_' # creators_ =>
          /\ result'.op \in RegistrationOps
          /\ typeid_name(result'.T) \in DOMAIN creators_'
          /\ \A k \in (DOMAIN creators_ \cup DOMAIN creators_')
                      \ {typeid_name(result'.T)} :
                /\ k \in DOMAIN creators_
                /\ k \in DOMAIN creators_'
                /\ creators_'[k] = creators_[k]

\* C12: resolve<T>() leaves the key-to-creator map as it was, whether it
\* returned or failed, at top level or in a nested resolution; the map
\* changes only in a registration, and then only in the entry of the type
\* registered.
C12_ResolveKeepsRegistry == [][C12_Frame]_vars

\* C12 witness: a resolve failed in a nested resolution, after another
\* dependency had been constructed, and the registry still holds exactly
\* the creators registered.
C12_Witness ==
    /\ result.op = "resolve"
    /\ result.status = "runtime_error"
    /\ EventsOf("make") # {}
    /\ Cardinality(DOMAIN creators_) = 2
    /\ \A T \in Types : Registered(T) <=> T \in DOMAIN lastReg
    /\ \A T \in DOMAIN lastReg : CreatorOf(T) = lastReg[T]

\* Index in main of the statement that calls run.
RunIndex == CHOOSE i \in 1..Len(Main) : Main[i].stmt = "run"

\* Number of statements of Controller::run executed so far.
RunSteps ==
    IF runpc # 0 THEN runpc - 1
    ELSE IF pc = 0 \/ pc > RunIndex THEN 5 ELSE 0

\* What a complete run writes to std::cout when the line read is n.
RunTrace(n) ==
    << log("Starting application..."), askForName, displayGreeting(n),
       log("Application finished.") >>

\* What run has written so far; main's own log line precedes it.
RunOutput == SubSeq(cout, 2, Len(cout))

\* C13: Controller::run logs "Starting application...", asks the View for
\* a name, stores it in the Model, displays the greeting for the name read
\* back from the Model and logs "Application finished.", in this order and
\* nothing else; the name displayed is the one askForName returned.
C13_RunSequence ==
    LET k == RunSteps
        written == CASE k = 0 -> 0
                     [] k = 1 -> 1
                     [] k \in {2, 3} -> 2
                     [] k = 4 -> 3
                     [] OTHER -> 4
    IN /\ RunOutput = SubSeq(RunTrace(name), 1, written)
       /\ k >= 2 => name \in Names
       /\ "controller" \in DOMAIN locals =>
             getName(model_(locals["controller"])) =
                 (IF k >= 3 THEN name ELSE "")
       /\ k >= 4 => cout[4] = "Hello " \o name \o "!\n"

\* C13 witness: a run that read a non-empty name has returned to main.
C13_Witness ==
    /\ runpc = 0
    /\ pc = RunIndex + 1
    /\ name # ""
    /\ Len(cout) = 5

\* The keys of the map are kept by every step.
C14_Grows == DOMAIN creators_ \subseteq DOMAIN creators_'

\* After resolve<T>() of a registered T, no error is about T: every throw
\* is for an unregistered type T depends on, raised in a nested resolve.
C14_Found ==
    (result.op = "resolve" /\ Registered(result.T)) =>
        /\ result.events[1] = Event("resolve", result.T, 0)
        /\ result.status = "runtime_error" => EventsOf("throw") # {}
        /\ \A e \in EventsOf("throw") :
              /\ e > 2
              /\ result.events[e].T # result.T
              /\ ~Registered(result.events[e].T)
              /\ result.events[e].T \in Reach(result.T)

\* C14: the set of registered keys only grows; once T is registered every
\* later resolve<T>() finds T's creator, and an unregistered-type error of
\* such a resolve comes from the nested resolution of an unregistered
\* transitive dependency, never from T itself.
C14_RegisteredStays == []C14_Found /\ [][C14_Grows]_vars

\* C14 witness: with two keys registered, resolve of a registered type
\* failed for a type that a registered dependency of it depends on and
\* that was never registered.
C14_Witness ==
    /\ result.op = "resolve"
    /\ Registered(result.T)
    /\ result.status = "runtime_error"
    /\ Cardinality(DOMAIN creators_) = 2
    /\ \E U \in DepsOf(result.T) : Registered(U) /\ U # result.T
                                     /\ DepsOf(U) \ DOMAIN lastReg # {}

\* The handles main holds on the collaborators of its Controller.
Handles == {"logger", "model", "view"}

\* The collaborator the Controller holds for the handle v of main.
Injected(v) ==
    CASE v = "model" -> model_(locals["controller"])
      [] v = "view" -> view_(locals["controller"])
      [] v = "logger" -> logger_(locals["controller"])

\* The wiring label of the first log line.
Label == IF program = "custom" THEN " - Custom DI Framework"
         ELSE " - Manual DI"

\* C15: in the custom-container main the Logger, Model and View resolved
\* by main are other instances than the ones injected into the resolved
\* Controller, so the name run stores is not visible through main's Model;
\* in the manual main the Controller holds the instances main created;
\* both programs write the same sequence to std::cout apart from the
\* wiring label of the first log line.
C15_WiringIdentity ==
    /\ "controller" \in DOMAIN locals =>
          /\ \A v \in Handles :
                /\ Injected(v).type = locals[v].type
                /\ program = "custom" => Injected(v).id # locals[v].id
                /\ program = "manual" => Injected(v) = locals[v]
          /\ getName(locals["model"]) =
                (IF program = "manual" /\ RunSteps >= 3 THEN name ELSE "")
    /\ cout # <<>> =>
          /\ cout[1] = "[LOG]: App Name: HelloApp" \o Label \o "\n"
          /\ cout = SubSeq(<<cout[1]>> \o RunTrace(name), 1, Len(cout))
    /\ pc = 0 => cout = <<cout[1]>> \o RunTrace(name)

\* C15 witness: the custom-container main has finished a run that stored a
\* non-empty name in the Controller's Model.
C15_Witness ==
    /\ program = "custom"
    /\ pc = 0
    /\ name # ""
    /\ getName(model_(locals["controller"])) = name
    /\ getName(locals["model"]) = ""

====
